---- MODULE Spec2Model ----
(***************************************************************************)
(* django/db/models/fields/enum_field.py: EnumField, a model field that    *)
(* stores members of an enum.Enum subclass, and EnumChoiceField, its form  *)
(* field.                                                                  *)
(*                                                                         *)
(* A run of the model is: the module is imported (enum_module is bound or  *)
(* None), one EnumField is constructed from some arguments (and either     *)
(* comes into existence or raises), and then its methods are called, in    *)
(* any order and any number of times, on values drawn from Values.  Every  *)
(* method is a pure function of the field and its argument; `last` holds   *)
(* the most recent call, its argument and what it returned or raised.      *)
(***************************************************************************)
EXTENDS Integers, Sequences, FiniteSets, TLC

VARIABLES
    enum_module,   \* TRUE: `import enum` succeeded; FALSE: enum_module is None
    ctor,          \* the arguments the constructor was called with
    field,         \* the EnumField: not yet built, ready, or failed to build
    form,          \* the EnumChoiceField formfield() returned, if any
    last           \* the last method call: [op, arg, out]

vars == <<enum_module, ctor, field, form, last>>

\* Longest choices argument the constructor is tried with.
MaxChoices == 2

(***************************************************************************)
(* Python values.  One record shape for all of them, so that any two can   *)
(* be compared: None, an int, a str, or a member of an Enum class.         *)
(***************************************************************************)
NoneV == [kind |-> "none", i |-> 0, s |-> "", enum |-> "", name |-> ""]

IntV(n) == [kind |-> "int", i |-> n, s |-> "", enum |-> "", name |-> ""]

StrV(t) == [kind |-> "str", i |-> 0, s |-> t, enum |-> "", name |-> ""]

Member(e, n) == [kind |-> "member", i |-> 0, s |-> "", enum |-> e, name |-> n]

\* isinstance(value, enum_module.Enum)
IsEnumInstance(value) == value.kind = "member"

(***************************************************************************)
(* The classes a caller can hand to the constructor.  Color is the         *)
(* enumeration of the specification's scenarios; Shape is a second         *)
(* enumeration, one of whose values (1) is also a value of Color and one   *)
(* of whose values is a string; PlainClass is a class that is neither an   *)
(* Enum nor a Field.                                                       *)
(***************************************************************************)
EnumMembers(e) ==
    CASE e = "Color" -> << [name |-> "RED",   value |-> IntV(1)],
                           [name |-> "GREEN", value |-> IntV(2)],
                           [name |-> "BLUE",  value |-> IntV(3)] >>
      [] e = "Shape" -> << [name |-> "CIRCLE", value |-> IntV(1)],
                           [name |-> "SQUARE", value |-> StrV("sq")] >>
      [] OTHER -> << >>

EnumClassArgs == {"Color", "Shape", "PlainClass"}

FieldClassArgs == {"PositiveSmallIntegerField", "CharField", "PlainClass"}

\* issubclass(enum_class, enum_module.Enum)
IsEnumSubclass(enum_class) == enum_class \in {"Color", "Shape"}

\* issubclass(field_class, Field)
IsFieldSubclass(field_class) ==
    field_class \in {"PositiveSmallIntegerField", "CharField"}

\* m.value
MemberValue(m) ==
    LET ms == EnumMembers(m.enum)
        k  == CHOOSE j \in 1..Len(ms) : ms[j].name = m.name
    IN  ms[k].value

\* list(enum_class): the members in declaration order
MembersOf(e) == [k \in 1..Len(EnumMembers(e)) |-> Member(e, EnumMembers(e)[k].name)]

(***************************************************************************)
(* What a call returns or raises.  `params` is the ValidationError's       *)
(* params: << >> for None, <<v>> for {'value': v}.  `code` is "None" when  *)
(* the exception was built without a code.                                 *)
(***************************************************************************)
Ok(v) == [tag |-> "ok", val |-> v, code |-> "None", params |-> << >>]

Raise(exc, code, params) ==
    [tag |-> exc, val |-> NoneV, code |-> code, params |-> params]

\* enum_class(value): Enum.__call__, the lookup of a member by value.  A
\* member of the class is returned as it is; a value equal to a member's
\* value gives that member; anything else raises ValueError.
EnumCall(enum_class, value) ==
    LET ms == EnumMembers(enum_class) IN
    IF IsEnumInstance(value) /\ value.enum = enum_class
    THEN Ok(value)
    ELSE IF \E k \in 1..Len(ms) : ms[k].value = value
    THEN Ok(Member(enum_class,
                   ms[CHOOSE k \in 1..Len(ms) : ms[k].value = value].name))
    ELSE Raise("ValueError", "None", << >>)

(***************************************************************************)
(* EnumField.__init__ and its helpers.                                     *)
(***************************************************************************)
validate_enum_class(enum_class) ==
    IF ~enum_module THEN "ImportError"
    ELSE IF ~IsEnumSubclass(enum_class) THEN "ValueError"
    ELSE "ok"

validate_field_class(field_class) ==
    IF ~IsFieldSubclass(field_class) THEN "ValueError" ELSE "ok"

\* choice_option = lambda m: (m.value, m)
choice_option(m) == [value |-> MemberValue(m), member |-> m]

\* choice_list = lambda itr: list(map(choice_option, itr))
choice_list(itr) == [k \in 1..Len(itr) |-> choice_option(itr[k])]

\* The forms of the choices argument that prepare_choices tells apart.
\* "other" is any iterable that is not a list, a tuple or a set: a
\* frozenset, a generator, a range, a dict view.
AcceptedForms == {"list", "tuple", "set"}

ChoiceForms == AcceptedForms \cup {"other"}

\* The orders in which the elements of a set can be iterated.
Orderings(S) ==
    {q \in [1..Cardinality(S) -> S] :
        \A a, b \in 1..Cardinality(S) : a # b => q[a] # q[b]}

Range(q) == {q[k] : k \in 1..Len(q)}

\* The sequences in which iterating the choices argument can yield its
\* elements.  A list or a tuple yields them as written; a set yields its
\* distinct elements in an order the caller does not control.
Iterations(choices) ==
    IF choices.form = "set" THEN Orderings(Range(choices.items))
    ELSE {choices.items}

\* prepare_choices(choices, blank), with `itr` what iterating choices yields.
\* Returns the choice list, or None (none = TRUE) when choices is given in
\* a form that is not a list, tuple or set, or raises the ValueError of
\* the first element that enum_class() rejects.
prepare_choices_all_members(enum_class, choices, itr) ==
    [tag |-> "ok", none |-> FALSE, list |-> choice_list(MembersOf(enum_class))]

prepare_choices(enum_class, choices, itr) ==
    IF choices.supplied
    THEN IF choices.form \in AcceptedForms
         THEN IF \E k \in 1..Len(itr) : EnumCall(enum_class, itr[k]).tag # "ok"
              THEN [tag |-> "ValueError", none |-> FALSE, list |-> << >>]
              ELSE [tag |-> "ok", none |-> FALSE,
                    list |-> choice_list(
                        [k \in 1..Len(itr) |-> EnumCall(enum_class, itr[k]).val])]
         ELSE [tag |-> "ok", none |-> TRUE, list |-> << >>]
    ELSE [tag |-> "ok", none |-> FALSE, list |-> choice_list(MembersOf(enum_class))]

NoField ==
    [state |-> "none", error |-> "", enum_class |-> "", field_class |-> "",
     null |-> FALSE, choices |-> << >>, choices_none |-> FALSE]

FailedField(exc) == [NoField EXCEPT !.state = "failed", !.error = exc]

\* EnumField(enum_class, field_class, null=..., choices=...)
EnumField_init(enum_class, field_class, null, choices, itr) ==
    LET pc == prepare_choices(enum_class, choices, itr) IN
    IF validate_enum_class(enum_class) # "ok"
    THEN FailedField(validate_enum_class(enum_class))
    ELSE IF validate_field_class(field_class) # "ok"
    THEN FailedField(validate_field_class(field_class))
    ELSE IF pc.tag # "ok"
    THEN FailedField(pc.tag)
    ELSE [state |-> "ready", error |-> "", enum_class |-> enum_class,
          field_class |-> field_class, null |-> null,
          choices |-> pc.list, choices_none |-> pc.none]

(***************************************************************************)
(* EnumField's value methods.                                              *)
(***************************************************************************)
validate_value_drops_params(self, value) ==
    IF value.kind = "none"
    THEN IF ~self.null
         THEN Raise("InvalidEnumValueError", "None", << >>)
         ELSE Ok(value)
    ELSE IF ~IsEnumInstance(value)
    THEN IF EnumCall(self.enum_class, value).tag = "ok"
         THEN Ok(EnumCall(self.enum_class, value).val)
         ELSE Raise("InvalidEnumValueError", "invalid_value", << >>)
    ELSE IF value.enum # self.enum_class
    THEN Raise("InvalidEnumTypeError", "invalid_type", <<value>>)
    ELSE Ok(value)

validate_value(self, value) ==
    IF value.kind = "none"
    THEN IF ~self.null
         THEN Raise("InvalidEnumValueError", "None", << >>)
         ELSE Ok(value)
    ELSE IF ~IsEnumInstance(value)
    THEN IF EnumCall(self.enum_class, value).tag = "ok"
         THEN Ok(EnumCall(self.enum_class, value).val)
         ELSE Raise("InvalidEnumValueError", "invalid_value", <<value>>)
    ELSE IF value.enum # self.enum_class
    THEN Raise("InvalidEnumTypeError", "invalid_type", <<value>>)
    ELSE Ok(value)

\* self.validate_enum_value(value).  EnumField defines validate_value and no
\* validate_enum_value, and the generic Field it extends has no enum
\* coercion of its own: looking the attribute up raises AttributeError
\* before any coercion runs.
validate_enum_value(self, value) == Raise("AttributeError", "None", << >>)

\* get_db_prep_value returns what validate_enum_value returned, unchanged.
get_db_prep_value(self, value) == validate_enum_value(self, value)

from_db_value(self, value) == validate_enum_value(self, value)

\* to_python re-raises a ValidationError; any other exception propagates
\* as well.
to_python(self, value) == validate_enum_value(self, value)

(***************************************************************************)
(* The form field.                                                         *)
(***************************************************************************)
NoForm == [made |-> FALSE, enum_class |-> "", choices |-> << >>]

\* EnumChoiceField(enum_class, choices=..., **kwargs)
EnumChoiceField_init(enum_class, choices) ==
    [made |-> TRUE, enum_class |-> enum_class, choices |-> choices]

\* EnumField.formfield(): the form field is built over the field's
\* enumeration and its choice list.
formfield(self) == EnumChoiceField_init(self.enum_class, self.choices)

\* forms.Field.empty_values, as far as Values reaches
empty_values == {NoneV, StrV("")}

IntText(n) == <<"0", "1", "2", "3", "4", "5", "6", "7", "8", "9">>[n + 1]

\* smart_text(value)
smart_text(value) ==
    CASE value.kind = "int"    -> StrV(IntText(value.i))
      [] value.kind = "member" -> StrV(value.enum \o "." \o value.name)
      [] OTHER                 -> value

\* forms.ChoiceField.to_python: '' for an empty value, else its text
ChoiceField_to_python(value) ==
    IF value \in empty_values THEN StrV("") ELSE smart_text(value)

EnumChoiceField_prepare_value(value) ==
    IF IsEnumInstance(value) THEN MemberValue(value) ELSE value

\* EnumChoiceField.to_python.  The name uuid is bound nowhere in the
\* module, so evaluating uuid.UUID(value) raises NameError, which the
\* `except ValueError` clause does not catch.
EnumChoiceField_to_python(value) ==
    LET v == ChoiceField_to_python(value) IN
    IF v \in empty_values THEN Ok(NoneV)
    ELSE IF ~IsEnumInstance(v) THEN Raise("NameError", "None", << >>)
    ELSE Ok(v)

(***************************************************************************)
(* Inputs.                                                                 *)
(***************************************************************************)
RED == Member("Color", "RED")

GREEN == Member("Color", "GREEN")

BLUE == Member("Color", "BLUE")

CIRCLE == Member("Shape", "CIRCLE")

SQUARE == Member("Shape", "SQUARE")

\* The values the methods are called with.
Values ==
    {NoneV, IntV(1), IntV(2), IntV(9), StrV(""), StrV("1"), StrV("sq"),
     RED, GREEN, BLUE, CIRCLE, SQUARE}

\* The elements a choices argument is made of.
ChoiceItems == {IntV(1), BLUE, IntV(9), CIRCLE}

SeqsUpTo(S, n) == UNION {[1..k -> S] : k \in 0..n}

NotSupplied == [supplied |-> FALSE, form |-> "list", items |-> << >>]

\* The choices arguments the constructor is tried with; `items` are the
\* elements in the order the caller wrote them.  A set holds each of its
\* elements once.
ChoicesArgs ==
    {NotSupplied} \cup
    {c \in {[supplied |-> TRUE, form |-> f, items |-> q] :
                f \in ChoiceForms, q \in SeqsUpTo(ChoiceItems, MaxChoices)} :
        c.form = "set" => Cardinality(Range(c.items)) = Len(c.items)}

NoCtor ==
    [enum_class |-> "", field_class |-> "", null |-> FALSE, choices |-> NotSupplied]

NoCall == [op |-> "none", arg |-> NoneV, out |-> Ok(NoneV)]

(***************************************************************************)
(* The state machine.                                                      *)
(***************************************************************************)
Init ==
    /\ enum_module \in BOOLEAN
    /\ ctor = NoCtor
    /\ field = NoField
    /\ form = NoForm
    /\ last = NoCall

Construct ==
    /\ field.state = "none"
    /\ \E enum_class \in EnumClassArgs, field_class \in FieldClassArgs,
          null \in BOOLEAN, choices \in ChoicesArgs :
         \E itr \in Iterations(choices) :
            /\ ctor' = [enum_class |-> enum_class, field_class |-> field_class,
                        null |-> null, choices |-> choices]
            /\ field' = EnumField_init(enum_class, field_class, null, choices, itr)
    /\ UNCHANGED <<enum_module, form, last>>

Call(op, arg, out) ==
    /\ last' = [op |-> op, arg |-> arg, out |-> out]
    /\ UNCHANGED <<enum_module, ctor, field, form>>

ValidateValue ==
    /\ field.state = "ready"
    /\ \E value \in Values : Call("validate_value", value, validate_value(field, value))

GetDbPrepValue ==
    /\ field.state = "ready"
    /\ \E value \in Values :
         Call("get_db_prep_value", value, get_db_prep_value(field, value))

FromDbValue ==
    /\ field.state = "ready"
    /\ \E value \in Values : Call("from_db_value", value, from_db_value(field, value))

ToPython ==
    /\ field.state = "ready"
    /\ \E value \in Values : Call("to_python", value, to_python(field, value))

Formfield ==
    /\ field.state = "ready"
    /\ form' = formfield(field)
    /\ UNCHANGED <<enum_module, ctor, field, last>>

FormPrepareValue ==
    /\ form.made
    /\ \E value \in Values :
         Call("form.prepare_value", value, Ok(EnumChoiceField_prepare_value(value)))

FormToPython ==
    /\ form.made
    /\ \E value \in Values :
         Call("form.to_python", value, EnumChoiceField_to_python(value))

Next ==
    \/ Construct
    \/ ValidateValue
    \/ GetDbPrepValue
    \/ FromDbValue
    \/ ToPython
    \/ Formfield
    \/ FormPrepareValue
    \/ FormToPython

Spec == Init /\ [][Next]_vars

(***************************************************************************)
(* Vocabulary of the properties.                                           *)
(***************************************************************************)
Ready == field.state = "ready"

IsPrimitive(v) == v.kind \in {"int", "str"}

\* the members of enumeration e whose underlying value is the primitive v
Matching(e, v) ==
    {Member(e, EnumMembers(e)[k].name) :
        k \in {j \in 1..Len(EnumMembers(e)) : EnumMembers(e)[j].value = v}}

IsMemberOf(e, v) == v.kind = "member" /\ v.enum = e

CoercionOps == {"get_db_prep_value", "from_db_value", "to_python"}

\* the choices argument was given in a form prepare_choices accepts
Restricted == ctor.choices.supplied /\ ctor.choices.form \in AcceptedForms

\* C1: to_storage (get_db_prep_value) of a member m of the field's
\* enumeration, or of a raw primitive equal to m's underlying value,
\* returns m's underlying primitive value.
C1_ToStorageReturnsPrimitive ==
    (Ready /\ last.op = "get_db_prep_value") =>
        \A m \in Range(MembersOf(field.enum_class)) :
            last.arg \in {m, MemberValue(m)} => last.out = Ok(MemberValue(m))

\* C2: a member of an enumeration other than the field's own fails
\* coercion through to_storage, from_storage and to_domain with
\* InvalidType, code invalid_type, whatever the nullability.
C2_OtherEnumIsInvalidType ==
    (Ready /\ last.op \in CoercionOps
           /\ IsEnumInstance(last.arg) /\ last.arg.enum # field.enum_class) =>
        /\ last.out.tag = "InvalidEnumTypeError"
        /\ last.out.code = "invalid_type"

\* C3: to_storage and from_storage of None give None on a nullable field
\* and fail with InvalidValue on a field that is not nullable.
C3_AbsenceFollowsNullability ==
    (Ready /\ last.op \in {"get_db_prep_value", "from_db_value"}
           /\ last.arg = NoneV) =>
        IF field.null THEN last.out = Ok(NoneV)
        ELSE last.out.tag = "InvalidEnumValueError"

\* C4: coercing a raw primitive that equals no member's underlying value
\* fails with InvalidValue, code invalid_value, and the error's params hold
\* the raw value as it was passed in.
C4_UnknownPrimitiveIsInvalidValue ==
    (Ready /\ last.op = "validate_value" /\ IsPrimitive(last.arg)
           /\ Matching(field.enum_class, last.arg) = {}) =>
        /\ last.out.tag = "InvalidEnumValueError"
        /\ last.out.code = "invalid_value"
        /\ last.out.params = <<last.arg>>

\* C4 happens: 9 was coerced against an enumeration without a 9.
C4_Witness ==
    /\ Ready /\ last.op = "validate_value" /\ last.arg = IntV(9)
    /\ last.out.tag = "InvalidEnumValueError"

\* C5: every failure of to_storage is a typed ValidationError carrying the
\* offending value and the code invalid_value or invalid_type.
C5_ToStorageFailuresAreTyped ==
    (Ready /\ last.op = "get_db_prep_value" /\ last.out.tag # "ok") =>
        /\ last.out.tag \in {"InvalidEnumValueError", "InvalidEnumTypeError"}
        /\ last.out.code \in {"invalid_value", "invalid_type"}
        /\ last.out.params = <<last.arg>>

\* C6: from_storage of a member's underlying primitive returns that
\* member, and from_storage of a primitive matching no member fails.
C6_FromStorageRevalidates ==
    (Ready /\ last.op = "from_db_value" /\ IsPrimitive(last.arg)) =>
        /\ \A m \in Matching(field.enum_class, last.arg) : last.out = Ok(m)
        /\ Matching(field.enum_class, last.arg) = {} => last.out.tag # "ok"

\* C7: no field is ready whose definition is not an enumeration, whose
\* underlying kind is not a field kind, or whose supplied choices hold a
\* value that cannot be coerced to a member; and no value method of a
\* ready field raises a configuration error.
ConfigErrors == {"ImportError", "ValueError"}

C7_BadConfigurationNeverReady ==
    Ready =>
        /\ IsEnumSubclass(ctor.enum_class)
        /\ IsFieldSubclass(ctor.field_class)
        /\ ctor.choices.supplied =>
               \A v \in Range(ctor.choices.items) :
                   \/ IsMemberOf(ctor.enum_class, v)
                   \/ IsPrimitive(v) /\ Matching(ctor.enum_class, v) # {}
        /\ last.out.tag \notin ConfigErrors

\* the (value, member) pair of the member that a supplied choice denotes
PairOf(e, v) ==
    LET m == IF IsEnumInstance(v) THEN v ELSE CHOOSE x \in Matching(e, v) : TRUE
    IN  [value |-> MemberValue(m), member |-> m]

DeclaredPairs(e) ==
    [k \in 1..Len(EnumMembers(e)) |->
        [value |-> EnumMembers(e)[k].value, member |-> Member(e, EnumMembers(e)[k].name)]]

\* C8 as stated: with no choices the list is every member's (value,
\* member) pair in declaration order; with choices in any accepted form
\* it is the pairs of the supplied members in the order they were given.
C8_ChoiceListInGivenOrder ==
    Ready =>
        /\ ~ctor.choices.supplied => field.choices = DeclaredPairs(field.enum_class)
        /\ Restricted =>
              field.choices =
                  [k \in 1..Len(ctor.choices.items) |->
                      PairOf(field.enum_class, ctor.choices.items[k])]

\* C8 amended: the order given is kept for a list or a tuple; a set gives
\* the pairs of its distinct elements, each once, in some order.
C8_ChoiceListOrder ==
    Ready =>
        /\ ~ctor.choices.supplied => field.choices = DeclaredPairs(field.enum_class)
        /\ (Restricted /\ ctor.choices.form # "set") =>
              field.choices =
                  [k \in 1..Len(ctor.choices.items) |->
                      PairOf(field.enum_class, ctor.choices.items[k])]
        /\ (Restricted /\ ctor.choices.form = "set") =>
              \E q \in Orderings(Range(ctor.choices.items)) :
                  field.choices =
                      [k \in 1..Len(q) |-> PairOf(field.enum_class, q[k])]

\* C8 happens: a field was built from two distinct choices, kept in order.
C8_Witness ==
    /\ Ready /\ Restricted /\ ctor.choices.form = "tuple"
    /\ ctor.choices.items = <<BLUE, IntV(1)>>
    /\ field.choices = << [value |-> IntV(3), member |-> BLUE],
                          [value |-> IntV(1), member |-> RED] >>

\* C9: on a field built with a restricted choice list, to_storage and
\* to_domain succeed for every member of the full definition, and the
\* form field is given exactly the restricted pairs.
C9_RestrictionOnlyNarrowsPresentation ==
    (Ready /\ Restricted) =>
        /\ (last.op \in {"get_db_prep_value", "to_python"}
              /\ IsMemberOf(field.enum_class, last.arg)) => last.out.tag = "ok"
        /\ form.made =>
              \E q \in Iterations(ctor.choices) :
                  form.choices = [k \in 1..Len(q) |-> PairOf(field.enum_class, q[k])]

\* C10: the form field's to_python of prepare_value(m) is m for every
\* member m of the choice list, and an empty or blank submitted value
\* decodes to None.
C10_FormRoundTrip ==
    (form.made /\ last.op = "form.to_python") =>
        /\ \A k \in 1..Len(form.choices) :
              last.arg = EnumChoiceField_prepare_value(form.choices[k].member)
                  => last.out = Ok(form.choices[k].member)
        /\ last.arg \in {NoneV, StrV("")} => last.out = Ok(NoneV)

\* The coercer called directly (validate_value) classifies as the
\* specification's coerce does: None follows the nullability, a member of
\* the field's enumeration is returned as it is, a member of another
\* enumeration is an InvalidEnumTypeError, a primitive gives the one member
\* with that value or an InvalidEnumValueError; the choice list plays no
\* part.
CoercerClassifies ==
    (Ready /\ last.op = "validate_value") =>
        CASE last.arg = NoneV ->
                 IF field.null THEN last.out = Ok(NoneV)
                 ELSE last.out.tag = "InvalidEnumValueError"
          [] IsMemberOf(field.enum_class, last.arg) -> last.out = Ok(last.arg)
          [] IsEnumInstance(last.arg) /\ last.arg.enum # field.enum_class ->
                 /\ last.out.tag = "InvalidEnumTypeError"
                 /\ last.out.code = "invalid_type"
          [] OTHER ->
                 /\ \A m \in Matching(field.enum_class, last.arg) : last.out = Ok(m)
                 /\ Matching(field.enum_class, last.arg) = {} =>
                        last.out.tag = "InvalidEnumValueError"

====
